---- MODULE Spec2Model ----
(***************************************************************************)
(* A model of requirementz (src/requirementz/tools.py): the requirement    *)
(* list Requirementz with add_line and duplicates, the record equality of  *)
(* RequirementPlus, and the backup-then-write scope SafeWriter that        *)
(* Requirementz.write uses.                                                *)
(*                                                                         *)
(* A package name is a sequence of character codes, a version a sequence   *)
(* of release numbers, a spec a pair <<operator, version>>, a requirement  *)
(* line the sequence of its tokens <<name, op1, ver1, op2, ver2, ...>>.    *)
(***************************************************************************)
EXTENDS Integers, Sequences, FiniteSets, TLC

(***************************************************************************)
(* Bounds of the model.                                                    *)
(***************************************************************************)
\* Longest requirement list the model builds.
MaxReqs == 2
\* Most specs on one requirement line.
MaxSpecs == 2

(***************************************************************************)
(* The universe of names, operators and versions the inputs are drawn from.*)
(***************************************************************************)
\* "d", "D" and "s": two spellings of one package and another package.
Names == { <<100>>, <<68>>, <<115>> }

\* Two of the operators of OP_FUNCS.
Ops == { ">=", "<=" }

\* Versions "1" and "2".
Versions == { <<1>>, <<2>> }

\* The (operator, version) pairs of the lines: ">= 1" and "<= 2".
SpecPairs == { <<">=", <<1>>>>, <<"<=", <<2>>>> }

\* str.lower() on a name.
Lower(name) ==
    [i \in DOMAIN name |->
        IF name[i] \in 65..90 THEN name[i] + 32 ELSE name[i]]

\* The sequences over S of length at most n.
SeqUpTo(S, n) == UNION { [1..k -> S] : k \in 0..n }

\* A spec list as a parsed line carries it: no pair twice.
SpecLists ==
    { sl \in SeqUpTo(SpecPairs, MaxSpecs) :
        \A i, j \in DOMAIN sl : sl[i] = sl[j] => i = j }

\* The records RequirementPlus.parse can return for the lines of the model.
Records == [name : Names, specs : SpecLists]

\* set(self.specs)
SpecSet(r) == { r.specs[i] : i \in DOMAIN r.specs }

RECURSIVE SpecTokens(_)
\* The tokens "op ver" of a spec list, in order.
SpecTokens(sl) ==
    IF sl = <<>> THEN <<>>
    ELSE <<sl[1][1], sl[1][2]>> \o SpecTokens(Tail(sl))

\* The line a record is written as: its name, then its specs.
LineOf(r) == <<r.name>> \o SpecTokens(r.specs)

\* Lines that do not parse: the blank line, and an operator without version.
BadLines == { <<>>, <<<<100>>, ">=">> }

\* The lines given to add_line.
Lines == { LineOf(r) : r \in Records } \cup BadLines

RECURSIVE ParseSpecs(_, _)
\* The spec pairs of the tokens of line from position i on.
ParseSpecs(line, i) ==
    IF i + 1 > Len(line) THEN <<>>
    ELSE << <<line[i], line[i + 1]>> >> \o ParseSpecs(line, i + 2)

\* RequirementPlus.parse(line) succeeds: there is a name, and every
\* operator has its version.
ParseOk(line) == Len(line) >= 1 /\ (Len(line) - 1) % 2 = 0

\* RequirementPlus.parse(line), for a line that parses.
Parse(line) == [name |-> line[1], specs |-> ParseSpecs(line, 2)]

\* Equality, had it asked for one shared spec only.
ReqEqOverlap(a, b) == SpecSet(a) \cap SpecSet(b) # {}

\* RequirementPlus.__eq__, on two records: set(self.specs) == set(other.specs)
ReqEq(a, b) == SpecSet(a) = SpecSet(b)

\* The index add_line's loop would stop at, had it compared the names as
\* they are written.
FirstMatchCase(rs, name) ==
    IF \E i \in DOMAIN rs : rs[i].name = name
    THEN CHOOSE i \in DOMAIN rs :
            /\ rs[i].name = name
            /\ \A j \in DOMAIN rs : rs[j].name = name => i <= j
    ELSE 0

\* The index, had the loop gone on to the last record of the name.
FirstMatchLast(rs, name) ==
    IF \E i \in DOMAIN rs : Lower(rs[i].name) = Lower(name)
    THEN CHOOSE i \in DOMAIN rs :
            /\ Lower(rs[i].name) = Lower(name)
            /\ \A j \in DOMAIN rs : Lower(rs[j].name) = Lower(name) => j <= i
    ELSE 0

\* The index add_line's loop stops at: the first record whose lowercased
\* name is the lowercased name, 0 when the loop runs to its else branch.
FirstMatch(rs, name) ==
    IF \E i \in DOMAIN rs : Lower(rs[i].name) = Lower(name)
    THEN CHOOSE i \in DOMAIN rs :
            /\ Lower(rs[i].name) = Lower(name)
            /\ \A j \in DOMAIN rs : Lower(rs[j].name) = Lower(name) => i <= j
    ELSE 0

\* Requirementz.names()
NamesOf(rs) == [i \in DOMAIN rs |-> rs[i].name]

\* tuple.count(name)
Count(ns, name) == Cardinality({ i \in DOMAIN ns : ns[i] = name })

\* Requirementz.get_byname(name) for a name of the list: the first record
\* with exactly this name.
GetByName(rs, name) ==
    rs[CHOOSE i \in DOMAIN rs :
            /\ rs[i].name = name
            /\ \A j \in DOMAIN rs : rs[j].name = name => i <= j]

\* dupes[key] = value on a dict.
DictSet(d, key, value) ==
    [k \in DOMAIN d \cup {key} |-> IF k = key THEN value ELSE d[k]]

RECURSIVE DupesLoop(_, _, _, _)
\* The loop of duplicates() from position i of names on.
DupesLoop(rs, ns, i, dupes) ==
    IF i > Len(ns) THEN dupes
    ELSE IF Count(ns, ns[i]) = 1
         THEN DupesLoop(rs, ns, i + 1, dupes)
         ELSE DupesLoop(rs, ns, i + 1,
                        DictSet(dupes, GetByName(rs, ns[i]),
                                Count(ns, ns[i]) - 1))

\* Requirementz.duplicates(): a dict from record to excess count.
Duplicates(rs) == DupesLoop(rs, NamesOf(rs), 1, <<>>)

(***************************************************************************)
(* Requirementz.write and SafeWriter.                                      *)
(***************************************************************************)
\* Most write() calls in one behaviour.
MaxWrites == 2

\* The file write() is called on, and the sibling file_backup() copies to.
Filename == "requirements.txt"

BackupName(filename) == filename \o ".bak"

\* A file on disk: whether it exists, and the units of text it holds.
NoFile == [exists |-> FALSE, data |-> <<>>]

FileOf(data) == [exists |-> TRUE, data |-> data]

\* The units of a text: a rendered line, or the newline '\n'.
NL == [nl |-> TRUE, text |-> <<>>]

LineUnit(l) == [nl |-> FALSE, text |-> l]

RECURSIVE NameLess(_, _)
\* a < b on two names, as Python compares str: by code point, a proper
\* prefix first.
NameLess(a, b) ==
    IF b = <<>> THEN FALSE
    ELSE IF a = <<>> THEN TRUE
    ELSE IF a[1] # b[1] THEN a[1] < b[1]
    ELSE NameLess(Tail(a), Tail(b))

RECURSIVE Insert(_, _)
\* r put into the sorted list rs after every record whose name is not
\* greater: sorted() is stable.
Insert(rs, r) ==
    IF rs = <<>> THEN <<r>>
    ELSE IF NameLess(r.name, rs[1].name) THEN <<r>> \o rs
    ELSE <<rs[1]>> \o Insert(Tail(rs), r)

RECURSIVE SortLoop(_, _)
\* Insertion of the records of rs, in order, into the sorted list acc.
SortLoop(rs, acc) ==
    IF rs = <<>> THEN acc ELSE SortLoop(Tail(rs), Insert(acc, rs[1]))

\* The records as they are: no sorted().
SortedByNameNone(rs) == rs

\* sorted(self, key=lambda r: r.name)
SortedByName(rs) == SortLoop(rs, <<>>)

RECURSIVE Join(_)
\* '\n'.join(str(r) for r in rs)
Join(rs) ==
    IF rs = <<>> THEN <<>>
    ELSE IF Len(rs) = 1 THEN <<LineUnit(LineOf(rs[1]))>>
    ELSE <<LineUnit(LineOf(rs[1])), NL>> \o Join(Tail(rs))

\* What the body of write() hands to f.write: the joined lines, then '\n'.
WriteText(rs) == Join(SortedByName(rs)) \o <<NL>>

\* s is the beginning of t.
IsPrefix(s, t) == Len(s) <= Len(t) /\ SubSeq(t, 1, Len(s)) = s

\* The records of the manifests write() is run on.
FileRecords ==
    { [name |-> <<100>>, specs |-> << <<">=", <<1>>>> >>],
      [name |-> <<115>>, specs |-> << <<"<=", <<2>>>> >>] }

\* The lists write() is called on, and the lists behind the files on disk.
Manifests == SeqUpTo(FileRecords, MaxReqs)

\* The errno of a failing copy or remove: EACCES, EROFS.
Errnos == { 13, 30 }

\* The errno values FILE_ERRS has a message for.
FILE_ERRS == { 2, 13 }

\* What raising FatalError(format_env_err(exc=ex, ...)) raises: FILE_ERRS.get
\* returns None for an errno without message, and None.format fails.
FormatEnvErr(errno) ==
    IF errno \in FILE_ERRS THEN "FatalError" ELSE "AttributeError"

(***************************************************************************)
(* State.                                                                  *)
(***************************************************************************)
VARIABLES
    reqs,       \* the Requirementz list (UserList.data)
    op,         \* the last call: "init", "add_line", "duplicates", "write"
    line,       \* the line of the last add_line
    before,     \* the list as it was when the last call started
    result,     \* the outcome of the last add_line
    dupes,      \* what the last duplicates() returned
    fs,         \* the disk: the destination file and its backup sibling
    sw_pc,      \* where the SafeWriter scope of write() stands
    sw_backup,  \* SafeWriter.backup: the backup's path, "" for None
    sw_f,       \* SafeWriter.f: "none", "open" or "closed"
    extype,     \* the exception type __exit__ is called with, "none" if none
    raised,     \* the exception write() ends with, "none" if none
    failedAt,   \* the step that raised it
    stderr,     \* what print_err has printed in this scope
    wpos,       \* units of the text the body has written
    prior,      \* the destination as it was at scope entry
    bodyRan,    \* the body of the with statement was entered
    writes,     \* write() calls so far
    input,      \* the lines a run hands to from_lines
    call,       \* the arguments of the last call of a function or command
    ret,        \* what that call returned or raised
    stdout,     \* what the last command has printed
    pkgs,       \* PKGS: the installed packages
    pypi,       \* what the package index answers for the names
    queried,    \* the names get_pypi_info was called with, in order
    status_latest   \* StatusLine.status_latest of the status line in use

collvars == <<reqs, op, line, before, result, dupes>>

swvars == <<fs, sw_pc, sw_backup, sw_f, extype, raised, failedAt, stderr,
            wpos, prior, bodyRan, writes>>

envvars == <<input, call, ret, stdout, pkgs, pypi, queried, status_latest>>

vars == <<collvars, swvars, envvars>>

\* The index has not been asked, and no status line has cached an answer
\* (self.status_latest = None).
RemoteIdle ==
    /\ queried = <<>>
    /\ status_latest = [cached |-> FALSE, val |-> 0]

\* Nothing has been called, nothing is installed, no index is asked.
EnvIdle ==
    /\ RemoteIdle
    /\ input = <<>>
    /\ call = [fn |-> "none"]
    /\ ret = [exc |-> "none", val |-> 0]
    /\ stdout = <<>>
    /\ pkgs = {}
    /\ pypi = {}

\* No write() has been called.
SWIdle ==
    /\ sw_pc = "idle"
    /\ sw_backup = ""
    /\ sw_f = "none"
    /\ extype = "none"
    /\ raised = "none"
    /\ failedAt = "none"
    /\ stderr = <<>>
    /\ wpos = 0
    /\ prior = NoFile
    /\ bodyRan = FALSE
    /\ writes = 0

(***************************************************************************)
(* Requirementz: add_line and duplicates.                                  *)
(***************************************************************************)
\* Requirementz(requirements): any list of records.
Init ==
    /\ reqs \in SeqUpTo(Records, MaxReqs)
    /\ op = "init"
    /\ line = <<>>
    /\ before = reqs
    /\ result = "none"
    /\ dupes = <<>>
    /\ fs = [dest |-> NoFile, bak |-> NoFile]
    /\ SWIdle
    /\ EnvIdle

\* add_line(line) raises ValueError('Invalid requirement spec.') when the
\* line does not parse.
AddInvalid(l) ==
    /\ ~ParseOk(l)
    /\ result' = "Invalid"
    /\ UNCHANGED reqs

\* add_line(line), duplicate case, had the record been stored before the
\* comparison.
AddDuplicateStored(l) ==
    /\ ParseOk(l)
    /\ FirstMatch(reqs, Parse(l).name) # 0
    /\ ReqEq(Parse(l), reqs[FirstMatch(reqs, Parse(l).name)])
    /\ result' = "Duplicate"
    /\ reqs' = [reqs EXCEPT ![FirstMatch(reqs, Parse(l).name)] = Parse(l)]

\* add_line(line) raises ValueError('Already a requirement') when the first
\* record of that name equals the new one.
AddDuplicate(l) ==
    /\ ParseOk(l)
    /\ FirstMatch(reqs, Parse(l).name) # 0
    /\ ReqEq(Parse(l), reqs[FirstMatch(reqs, Parse(l).name)])
    /\ result' = "Duplicate"
    /\ UNCHANGED reqs

\* add_line(line) replaces the first record of that name and returns False.
AddReplace(l) ==
    /\ ParseOk(l)
    /\ FirstMatch(reqs, Parse(l).name) # 0
    /\ ~ReqEq(Parse(l), reqs[FirstMatch(reqs, Parse(l).name)])
    /\ reqs' = [reqs EXCEPT ![FirstMatch(reqs, Parse(l).name)] = Parse(l)]
    /\ result' = "Replaced"

\* add_line(line), new case, had the record been put first.
AddNewFirst(l) ==
    /\ ParseOk(l)
    /\ FirstMatch(reqs, Parse(l).name) = 0
    /\ Len(reqs) < MaxReqs
    /\ reqs' = <<Parse(l)>> \o reqs
    /\ result' = "Added"

\* add_line(line) appends the record and returns True.
AddNew(l) ==
    /\ ParseOk(l)
    /\ FirstMatch(reqs, Parse(l).name) = 0
    /\ Len(reqs) < MaxReqs
    /\ reqs' = Append(reqs, Parse(l))
    /\ result' = "Added"

\* Requirementz.add_line(line)
add_line ==
    /\ \E l \in Lines :
        /\ \/ AddInvalid(l)
           \/ AddDuplicate(l)
           \/ AddReplace(l)
           \/ AddNew(l)
        /\ line' = l
    /\ op' = "add_line"
    /\ before' = reqs
    /\ dupes' = <<>>
    /\ UNCHANGED <<swvars, envvars>>

\* Requirementz.duplicates()
duplicates ==
    /\ op' = "duplicates"
    /\ dupes' = Duplicates(reqs)
    /\ before' = reqs
    /\ line' = <<>>
    /\ result' = "none"
    /\ UNCHANGED <<reqs, swvars, envvars>>

Next == add_line \/ duplicates

Spec == Init /\ [][Next]_vars

(***************************************************************************)
(* Properties of add_line and duplicates, checked under Spec.              *)
(***************************************************************************)
\* The record the last add_line parsed.
NewReq == Parse(line)

\* The positions of the list before the call whose name is, in lower case,
\* the new record's.
Matches ==
    { i \in DOMAIN before : Lower(before[i].name) = Lower(NewReq.name) }

\* The first of them.
MatchIdx == CHOOSE i \in Matches : \A j \in Matches : i <= j

\* The last add_line was given a line that parses.
AddedValid == op = "add_line" /\ ParseOk(line)

\* C1: when the line's name matches, in lower case, the name of a record
\* of the list and the new record is not equal to the first such record,
\* add_line puts the new record at that record's index, returns False
\* (Replaced), keeps the length and every other position, and the record
\* found under the name has the line's specs.
C1_ReplaceInPlace ==
    (/\ AddedValid
     /\ Matches # {}
     /\ SpecSet(NewReq) # SpecSet(before[MatchIdx]))
    => /\ result = "Replaced"
       /\ Len(reqs) = Len(before)
       /\ reqs[MatchIdx] = NewReq
       /\ \A j \in DOMAIN before : j # MatchIdx => reqs[j] = before[j]
       /\ GetByName(reqs, NewReq.name).specs = NewReq.specs

\* A record was replaced by one that spells the name differently, in a
\* list with a second position.
C1_Witness ==
    /\ AddedValid
    /\ result = "Replaced"
    /\ Len(before) = 2
    /\ Matches # {}
    /\ before[MatchIdx].name # NewReq.name
    /\ reqs[MatchIdx] = NewReq
    /\ reqs # before

\* C2: when the line's name matches no record's name, in lower case,
\* add_line appends the new record as the last element, returns True
\* (Added), the length grows by one, the earlier positions are unchanged
\* and the name is in names().
C2_AppendNew ==
    (AddedValid /\ Matches = {})
    => /\ result = "Added"
       /\ Len(reqs) = Len(before) + 1
       /\ reqs[Len(reqs)] = NewReq
       /\ \A j \in DOMAIN before : reqs[j] = before[j]
       /\ \E j \in DOMAIN NamesOf(reqs) : NamesOf(reqs)[j] = NewReq.name

\* A record was appended to a list that was not empty.
C2_Witness ==
    /\ AddedValid
    /\ result = "Added"
    /\ Len(before) >= 1
    /\ Matches = {}
    /\ Len(reqs) = Len(before) + 1

\* C3: when the new record is equal to the first record of its name,
\* add_line fails with the duplicate error and the list is what it was
\* before the call; the same holds when the line does not parse.
C3_FailureLeavesList ==
    /\ (/\ AddedValid
        /\ Matches # {}
        /\ SpecSet(NewReq) = SpecSet(before[MatchIdx]))
       => (result = "Duplicate" /\ reqs = before)
    /\ (op = "add_line" /\ ~ParseOk(line))
       => (result = "Invalid" /\ reqs = before)
    /\ (op = "add_line" /\ result \in {"Duplicate", "Invalid"})
       => reqs = before

\* The duplicate error was raised for a record that is equal to the
\* existing one without being the same record.
C3_Witness ==
    /\ AddedValid
    /\ result = "Duplicate"
    /\ Matches # {}
    /\ NewReq # before[MatchIdx]
    /\ reqs = before

\* C4 as claimed: records are equal if and only if their names match in
\* lower case and their spec sets share a pair, so add_line raises the
\* duplicate error exactly when the new record shares a spec with the
\* first record of its name.
C4_OverlapEquality ==
    (AddedValid /\ Matches # {})
    => ((result = "Duplicate")
            <=> (SpecSet(NewReq) \cap SpecSet(before[MatchIdx]) # {}))

\* C4, amended: records are equal if and only if their spec sets are the
\* same set (names are not compared), so add_line raises the duplicate
\* error exactly when the new record has the same set of specs as the first
\* record of its name, and replaces it when the sets differ, also when
\* they share a pair.
C4_SameSpecsEquality ==
    (AddedValid /\ Matches # {})
    => /\ (result = "Duplicate")
            <=> (SpecSet(NewReq) = SpecSet(before[MatchIdx]))
       /\ (result = "Replaced")
            <=> (SpecSet(NewReq) # SpecSet(before[MatchIdx]))

\* ">= 1, <= 2" was added over ">= 1" of the same name: a shared spec, and
\* a replacement.
C4_Witness ==
    /\ AddedValid
    /\ Matches # {}
    /\ Len(NewReq.specs) = 2
    /\ Len(before[MatchIdx].specs) = 1
    /\ SpecSet(NewReq) \cap SpecSet(before[MatchIdx]) # {}
    /\ result = "Replaced"

\* C5: duplicates() has an entry for exactly the names that occur more
\* than once when names are compared in lower case, and the entry of a
\* name that occurs N times is N - 1.
C5_DuplicatesIgnoreCase ==
    op = "duplicates"
    => \A i \in DOMAIN reqs :
        LET same == { j \in DOMAIN reqs :
                        Lower(reqs[j].name) = Lower(reqs[i].name) }
            keys == { k \in DOMAIN dupes :
                        Lower(k.name) = Lower(reqs[i].name) }
        IN  IF Cardinality(same) > 1
            THEN /\ Cardinality(keys) = 1
                 /\ \A k \in keys : dupes[k] = Cardinality(same) - 1
            ELSE keys = {}

(***************************************************************************)
(* Requirementz.write(filename): the SafeWriter scope, step by step.       *)
(***************************************************************************)
\* The disk and the list when a run of the program calls write(): the
\* manifest is missing or was written from some list, and no backup is
\* left behind.
InitSW ==
    /\ reqs \in Manifests
    /\ op = "init"
    /\ line = <<>>
    /\ before = reqs
    /\ result = "none"
    /\ dupes = <<>>
    /\ \E exists \in BOOLEAN, rs \in Manifests :
            fs = [dest |-> IF exists THEN FileOf(WriteText(rs)) ELSE NoFile,
                  bak |-> NoFile]
    /\ SWIdle
    /\ EnvIdle

\* file_backup(), had it never found a file to back up.
BackupNeededNever(dest) == FALSE

\* os.path.exists(self.filename) in file_backup().
BackupNeeded(dest) == dest.exists

\* write() is called: SafeWriter.__init__, then __enter__ calls
\* file_backup(), which returns at once when the file does not exist.
Enter ==
    /\ sw_pc \in {"idle", "done", "raised"}
    /\ writes < MaxWrites
    /\ writes' = writes + 1
    /\ reqs' \in Manifests
    /\ before' = reqs'
    /\ op' = "write"
    /\ UNCHANGED <<line, result, dupes, envvars>>
    /\ sw_backup' = ""
    /\ sw_f' = "none"
    /\ extype' = "none"
    /\ raised' = "none"
    /\ failedAt' = "none"
    /\ stderr' = <<>>
    /\ wpos' = 0
    /\ bodyRan' = FALSE
    /\ prior' = fs.dest
    /\ sw_pc' = IF BackupNeeded(fs.dest) THEN "backup" ELSE "open"
    /\ UNCHANGED fs

\* shutil.copy2 opens the backup file for writing.
CopyOpen ==
    /\ sw_pc = "backup"
    /\ fs' = [fs EXCEPT !.bak = FileOf(<<>>)]
    /\ sw_pc' = "copy"
    /\ UNCHANGED <<envvars, collvars, sw_backup, sw_f, extype, raised, failedAt,
                   stderr, wpos, prior, bodyRan, writes>>

\* shutil.copy2 copies the next unit.
CopyStep ==
    /\ sw_pc = "copy"
    /\ Len(fs.bak.data) < Len(fs.dest.data)
    /\ fs' = [fs EXCEPT !.bak.data =
                    Append(@, fs.dest.data[Len(fs.bak.data) + 1])]
    /\ UNCHANGED <<envvars, collvars, sw_pc, sw_backup, sw_f, extype, raised,
                   failedAt, stderr, wpos, prior, bodyRan, writes>>

\* shutil.copy2 has returned: self.backup = backupfile.
CopyDone ==
    /\ sw_pc = "copy"
    /\ Len(fs.bak.data) = Len(fs.dest.data)
    /\ sw_backup' = BackupName(Filename)
    /\ sw_pc' = "open"
    /\ UNCHANGED <<envvars, collvars,
                   fs, sw_f, extype, raised, failedAt, stderr,
                   wpos, prior, bodyRan, writes>>

\* A failing copy, had file_backup() swallowed the error and returned.
CopyFailSwallowed ==
    /\ sw_pc \in {"backup", "copy"}
    /\ raised' = "none"
    /\ failedAt' = "backup"
    /\ sw_pc' = "open"
    /\ UNCHANGED <<envvars, collvars, fs, sw_backup, sw_f, extype, stderr, wpos,
                   prior, bodyRan, writes>>

\* shutil.copy2 raises EnvironmentError, before or while it copies:
\* file_backup() raises FatalError(format_env_err(...)) out of __enter__.
CopyFail ==
    /\ sw_pc \in {"backup", "copy"}
    /\ \E errno \in Errnos : raised' = FormatEnvErr(errno)
    /\ failedAt' = "backup"
    /\ sw_pc' = "raised"
    /\ UNCHANGED <<envvars, collvars, fs, sw_backup, sw_f, extype, stderr, wpos,
                   prior, bodyRan, writes>>

\* open(), had the mode kept the file's data.
OpenDataKept(data) == data

\* What open(self.filename, mode='w') leaves of the file's data.
OpenData(data) == <<>>

\* self.f = open(self.filename, mode=self.mode); __enter__ returns and the
\* body starts.
OpenOk ==
    /\ sw_pc = "open"
    /\ fs' = [fs EXCEPT !.dest = FileOf(OpenData(fs.dest.data))]
    /\ sw_f' = "open"
    /\ bodyRan' = TRUE
    /\ sw_pc' = "body"
    /\ UNCHANGED <<envvars, collvars,
                   sw_backup, extype, raised, failedAt, stderr,
                   wpos, prior, writes>>

\* open() raises (the file or its directory is not writable): the error
\* leaves __enter__, __exit__ is not called.
OpenFail ==
    /\ sw_pc = "open"
    /\ raised' = "OSError"
    /\ failedAt' = "open"
    /\ sw_pc' = "raised"
    /\ UNCHANGED <<envvars, collvars, fs, sw_backup, sw_f, extype, stderr, wpos,
                   prior, bodyRan, writes>>

\* f.write: the next unit of the text reaches the file.
BodyWrite ==
    /\ sw_pc = "body"
    /\ wpos < Len(WriteText(reqs))
    /\ fs' = [fs EXCEPT !.dest.data = Append(@, WriteText(reqs)[wpos + 1])]
    /\ wpos' = wpos + 1
    /\ UNCHANGED <<envvars, collvars, sw_pc, sw_backup, sw_f, extype, raised,
                   failedAt, stderr, prior, bodyRan, writes>>

\* Both f.write calls have returned: __exit__(None, None, None).
BodyDone ==
    /\ sw_pc = "body"
    /\ wpos = Len(WriteText(reqs))
    /\ sw_pc' = "exit"
    /\ UNCHANGED <<envvars, collvars,
                   fs, sw_backup, sw_f, extype, raised, failedAt,
                   stderr, wpos, prior, bodyRan, writes>>

\* The body raises before the text is written in full: __exit__(extype, ..).
BodyFail ==
    /\ sw_pc = "body"
    /\ wpos < Len(WriteText(reqs))
    /\ extype' = "OSError"
    /\ failedAt' = "body"
    /\ sw_pc' = "exit"
    /\ UNCHANGED <<envvars, collvars, fs, sw_backup, sw_f, raised, stderr, wpos,
                   prior, bodyRan, writes>>

\* The warning, had it not named the backup.
ExitWarningNoPath(backup) ==
    [msg |-> "A backup file was saved", value |-> ""]

\* What __exit__ prints when the body raised.
ExitWarning(backup) ==
    IF backup # ""
    THEN [msg |-> "A backup file was saved", value |-> backup]
    ELSE [msg |-> "No backup was saved!", value |-> ""]

\* __exit__ after an error, had it returned True: the with statement
\* drops the error and write() returns.
ExitErrorSwallowed ==
    /\ sw_pc = "exit"
    /\ extype # "none"
    /\ sw_f' = "closed"
    /\ stderr' = Append(stderr, ExitWarning(sw_backup))
    /\ raised' = "none"
    /\ sw_pc' = "done"
    /\ UNCHANGED <<envvars, collvars,
                   fs, sw_backup, extype, failedAt, wpos, prior,
                   bodyRan, writes>>

\* __exit__ after an error: close, warn, return False; the error goes on
\* to the caller of write().
ExitError ==
    /\ sw_pc = "exit"
    /\ extype # "none"
    /\ sw_f' = "closed"
    /\ stderr' = Append(stderr, ExitWarning(sw_backup))
    /\ raised' = extype
    /\ sw_pc' = "raised"
    /\ UNCHANGED <<envvars, collvars,
                   fs, sw_backup, extype, failedAt, wpos, prior,
                   bodyRan, writes>>

\* __exit__ without error: close, then file_backup_remove().
ExitClose ==
    /\ sw_pc = "exit"
    /\ extype = "none"
    /\ sw_f' = "closed"
    /\ sw_pc' = "remove"
    /\ UNCHANGED <<envvars, collvars, fs, sw_backup, extype, raised, failedAt,
                   stderr, wpos, prior, bodyRan, writes>>

\* file_backup_remove(), had it never found a backup to remove.
RemoveNeededNever(backup, bak) == FALSE

\* file_backup_remove() has a backup file to remove.
RemoveNeeded(backup, bak) == backup # "" /\ bak.exists

\* file_backup_remove() returns: no backup was set or it does not exist,
\* or os.remove removed it.
Remove ==
    /\ sw_pc = "remove"
    /\ fs' = IF RemoveNeeded(sw_backup, fs.bak)
             THEN [fs EXCEPT !.bak = NoFile]
             ELSE fs
    /\ sw_pc' = "done"
    /\ UNCHANGED <<envvars, collvars, sw_backup, sw_f, extype, raised, failedAt,
                   stderr, wpos, prior, bodyRan, writes>>

\* os.remove raises EnvironmentError: FatalError(format_env_err(...)).
RemoveFail ==
    /\ sw_pc = "remove"
    /\ RemoveNeeded(sw_backup, fs.bak)
    /\ \E errno \in Errnos : raised' = FormatEnvErr(errno)
    /\ failedAt' = "remove"
    /\ sw_pc' = "raised"
    /\ UNCHANGED <<envvars, collvars, fs, sw_backup, sw_f, extype, stderr, wpos,
                   prior, bodyRan, writes>>

NextSW ==
    \/ Enter
    \/ CopyOpen
    \/ CopyStep
    \/ CopyDone
    \/ CopyFail
    \/ OpenOk
    \/ OpenFail
    \/ BodyWrite
    \/ BodyDone
    \/ BodyFail
    \/ ExitError
    \/ ExitClose
    \/ Remove
    \/ RemoveFail

SpecSW == InitSW /\ [][NextSW]_vars

(***************************************************************************)
(* Properties of the SafeWriter scope, checked under SpecSW.               *)
(***************************************************************************)
\* The scope has been entered and has not exited without error.
InScope == sw_pc \notin {"idle", "done"}

\* The scope has ended because its body raised.
BodyFailed == sw_pc = "raised" /\ failedAt = "body"

\* C6: when the destination existed at scope entry, then from entry until
\* the scope has exited without error its prior content is on disk in
\* full, in the destination that has not been opened or in the backup; and
\* the backup is complete before the destination is opened.
C6_PriorContentOnDisk ==
    (prior.exists /\ InScope)
    => /\ \/ sw_f = "none" /\ fs.dest = prior
          \/ fs.bak = prior
       /\ sw_f # "none"
            => (fs.bak = prior /\ sw_backup = BackupName(Filename))

\* The body has overwritten part of an existing destination.
C6_Witness ==
    /\ prior.exists
    /\ sw_pc = "body"
    /\ wpos >= 1
    /\ fs.dest # prior
    /\ fs.bak = prior

\* C7: when the body raised and the destination existed at entry, then
\* after scope exit the backup is on disk with the prior content and a
\* warning with the backup's path has been printed.
C7_FailureKeepsBackup ==
    (BodyFailed /\ prior.exists)
    => /\ fs.bak = prior
       /\ raised = extype
       /\ \E i \in DOMAIN stderr :
            /\ stderr[i].msg = "A backup file was saved"
            /\ stderr[i].value = "requirements.txt.bak"

\* The body of a write over an existing file raised after its first unit.
C7_Witness ==
    /\ BodyFailed
    /\ prior.exists
    /\ wpos >= 1
    /\ Len(stderr) = 1
    /\ raised = "OSError"

\* C8 as claimed: when the body raises, the destination holds its prior
\* content after the scope.
C8_DestinationIntact ==
    (BodyFailed /\ prior.exists) => fs.dest = prior

\* C8, amended: when the body raises and the destination existed at entry,
\* the destination is left truncated to the part of the new text that was
\* written before the failure and is not restored; its prior content is
\* intact in the backup only.
C8_DestinationTruncated ==
    (BodyFailed /\ prior.exists)
    => /\ fs.dest.exists
       /\ wpos < Len(WriteText(reqs))
       /\ fs.dest.data = SubSeq(WriteText(reqs), 1, wpos)
       /\ fs.bak.exists
       /\ fs.bak.data = prior.data

\* The body raised with part of the new text written over a destination
\* that held something else.
C8_Witness ==
    /\ BodyFailed
    /\ prior.exists
    /\ wpos >= 1
    /\ fs.dest.data # prior.data
    /\ ~IsPrefix(fs.dest.data, prior.data)

\* C9: after a scope that exits without error no backup file is on disk;
\* and when the destination did not exist at entry, no backup file is
\* made at any point.
C9_BackupTransient ==
    /\ sw_pc = "done" => ~fs.bak.exists
    /\ (sw_pc # "idle" /\ ~prior.exists)
        => (~fs.bak.exists /\ sw_backup = "")

\* A scope over an existing destination has exited without error: the
\* backup was made and is gone.
C9_Witness ==
    /\ sw_pc = "done"
    /\ prior.exists
    /\ sw_backup = BackupName(Filename)
    /\ ~fs.bak.exists
    /\ fs.dest = FileOf(WriteText(reqs))

\* C10: when the backup copy fails, write() ends with a fatal error
\* before the destination is opened: the destination is as it was, and the
\* body does not run.
C10_BackupFailureAborts ==
    failedAt = "backup"
    => /\ sw_pc = "raised"
       /\ raised \in {"FatalError", "AttributeError"}
       /\ fs.dest = prior
       /\ sw_f = "none"
       /\ ~bodyRan
       /\ wpos = 0
       /\ sw_backup = ""

\* The copy failed half way: a partial backup is on disk.
C10_Witness ==
    /\ failedAt = "backup"
    /\ sw_pc = "raised"
    /\ fs.bak.exists
    /\ fs.bak.data # prior.data
    /\ fs.dest = prior

(***************************************************************************)
(* Manifest text: the characters of a line, the lines of a file, and the   *)
(* construction of a collection from lines.                                *)
(***************************************************************************)
\* Most lines of a manifest somebody wrote by hand.
MaxFileLines == 2

\* The characters of an operator.
OpChars(o) ==
    CASE o = ">=" -> <<62, 61>>
      [] o = "<=" -> <<60, 61>>
      [] o = "==" -> <<61, 61>>
      [] o = ">" -> <<62>>
      [] o = "<" -> <<60>>

RECURSIVE VerChars(_)
\* The characters of a version: its numbers, joined by '.'.
VerChars(v) ==
    IF Len(v) = 1 THEN <<48 + v[1]>>
    ELSE <<48 + v[1], 46>> \o VerChars(Tail(v))

RECURSIVE TokChars(_, _)
\* The characters of the tokens of a line from position i on: ','.join of
\* '{} {}'.format(op, ver), after the ' ' that follows the name.
TokChars(toks, i) ==
    IF i > Len(toks) THEN <<>>
    ELSE IF i % 2 = 0
    THEN (IF i = 2 THEN <<32>> ELSE <<44>>)
         \o OpChars(toks[i]) \o TokChars(toks, i + 1)
    ELSE <<32>> \o VerChars(toks[i]) \o TokChars(toks, i + 1)

\* The characters of a line: '{name} {ver}'.format(...), nothing for the
\* blank line.
RawChars(toks) ==
    IF toks = <<>> THEN <<>>
    ELSE IF Len(toks) = 1 THEN toks[1] \o <<32>>
    ELSE toks[1] \o TokChars(toks, 2)

\* str(r): self.to_str(color=False, align=False)
StrOf(r) == RawChars(LineOf(r))

RECURSIVE ReadLoop(_, _, _)
\* The lines of the rest of a text, cur being the line read so far and
\* pending telling that characters were read since the last '\n'.
ReadLoop(data, cur, pending) ==
    IF data = <<>>
    THEN IF pending THEN << [text |-> cur, eol |-> FALSE] >> ELSE <<>>
    ELSE IF data[1].nl
    THEN << [text |-> cur, eol |-> TRUE] >> \o ReadLoop(Tail(data), <<>>, FALSE)
    ELSE ReadLoop(Tail(data), data[1].text, TRUE)

\* f.readlines(): every line with its '\n', the last one without when the
\* text does not end in '\n'.
ReadLines(data) == ReadLoop(data, <<>>, FALSE)

\* The str of a line as readlines() returns it.
LineStr(l) == RawChars(l.text) \o (IF l.eol THEN <<10>> ELSE <<>>)

\* Lines of a list given to from_lines directly: no '\n' at their end.
AsLines(texts) == [i \in DOMAIN texts |-> [text |-> texts[i], eol |-> FALSE]]

\* The lines as they were given: no sorted().
SortedLinesNone(ls) == ls

\* sorted(lines): by code point of the whole line, equal lines in the
\* order they came in. Line i goes to the place after the lines that are
\* less and the equal lines before it.
SortedLines(ls) ==
    LET place(i) ==
            1 + Cardinality({ j \in DOMAIN ls :
                                \/ NameLess(LineStr(ls[j]), LineStr(ls[i]))
                                \/ LineStr(ls[j]) = LineStr(ls[i]) /\ j < i })
    IN  [k \in DOMAIN ls |-> ls[CHOOSE i \in DOMAIN ls : place(i) = k]]

\* Every line of from_lines parses: a blank line is parsed like any other
\* line, and does not parse.
FromLinesOk(ls) == \A i \in DOMAIN ls : ParseOk(ls[i].text)

\* cls(RequirementPlus.parse(l) for l in sorted(lines))
FromLines(ls) ==
    [i \in DOMAIN ls |-> Parse(SortedLines(ls)[i].text)]

\* The lines somebody writes by hand: records with at most one spec, the
\* blank line and a line that does not parse.
HandLines == { l \in Lines : Len(l) <= 3 }

RECURSIVE JoinLines(_)
\* The text of lines separated by '\n'.
JoinLines(ls) ==
    IF ls = <<>> THEN <<>>
    ELSE (IF ls[1] = <<>> THEN <<>> ELSE <<LineUnit(ls[1])>>)
         \o (IF Len(ls) = 1 THEN <<>> ELSE <<NL>> \o JoinLines(Tail(ls)))

\* The manifests written by hand: with or without '\n' after the last line.
HandFiles ==
    { FileOf(JoinLines(ls) \o end) :
        ls \in SeqUpTo(HandLines, MaxFileLines), end \in { <<>>, <<NL>> } }

\* b holds the records of a, each as often as a does.
SameRecords(a, b) ==
    /\ Len(a) = Len(b)
    /\ \A r \in { a[i] : i \in DOMAIN a } :
         Cardinality({ i \in DOMAIN a : a[i] = r })
           = Cardinality({ i \in DOMAIN b : b[i] = r })

\* A call that returns v, and a call that raises e.
Return(v) == [exc |-> "none", val |-> v]

Raise(e) == [exc |-> e, val |-> 0]

(***************************************************************************)
(* Reading and writing a manifest: from_lines, write, from_file and        *)
(* sort_requirements, each as one step. write() is the run of its          *)
(* SafeWriter scope in which every step succeeds.                          *)
(***************************************************************************)
\* What the steps below leave alone.
filerest ==
    <<line, result, dupes, sw_pc, sw_backup, sw_f, extype, raised, failedAt,
      stderr, wpos, bodyRan, writes, input, call, stdout, pkgs, pypi,
      queried, status_latest>>

\* A run starts with a collection made of records, or with lines for
\* from_lines, or with a manifest written by hand.
InitFile ==
    /\ op = "init"
    /\ line = <<>>
    /\ result = "none"
    /\ dupes = <<>>
    /\ SWIdle
    /\ RemoteIdle
    /\ call = [fn |-> "none"]
    /\ ret = Return(0)
    /\ stdout = <<>>
    /\ pkgs = {}
    /\ pypi = {}
    /\ \/ /\ reqs \in SeqUpTo(Records, MaxReqs)
          /\ input = <<>>
          /\ fs = [dest |-> NoFile, bak |-> NoFile]
       \/ /\ reqs = <<>>
          /\ input \in SeqUpTo(Lines, MaxReqs)
          /\ fs = [dest |-> NoFile, bak |-> NoFile]
       \/ /\ reqs = <<>>
          /\ input = <<>>
          /\ \E file \in HandFiles : fs = [dest |-> file, bak |-> NoFile]
    /\ before = reqs

\* Requirementz.from_lines(input)
from_lines ==
    /\ op' = "from_lines"
    /\ before' = reqs
    /\ prior' = fs.dest
    /\ IF FromLinesOk(AsLines(input))
       THEN reqs' = FromLines(AsLines(input)) /\ ret' = Return(0)
       ELSE reqs' = reqs /\ ret' = Raise("ValueError")
    /\ UNCHANGED <<fs, filerest>>

\* self.write(filename=Filename), no step of the writer failing
write ==
    /\ op' = "write"
    /\ before' = reqs
    /\ prior' = fs.dest
    /\ fs' = [dest |-> FileOf(WriteText(reqs)), bak |-> NoFile]
    /\ ret' = Return(0)
    /\ UNCHANGED <<reqs, filerest>>

\* What Requirementz.from_file(Filename) returns or raises on a file.
FromFile(file) ==
    IF ~file.exists THEN Raise("FileNotFoundError")
    ELSE IF ~FromLinesOk(ReadLines(file.data)) THEN Raise("ValueError")
    ELSE Return(FromLines(ReadLines(file.data)))

\* reqs = Requirementz.from_file(Filename)
from_file ==
    /\ op' = "from_file"
    /\ before' = reqs
    /\ prior' = fs.dest
    /\ ret' = [FromFile(fs.dest) EXCEPT !.val = 0]
    /\ reqs' = IF FromFile(fs.dest).exc = "none"
               THEN FromFile(fs.dest).val ELSE reqs
    /\ UNCHANGED <<fs, filerest>>

\* sort_requirements(Filename): from_file, then write, then return 0
sort_requirements ==
    /\ op' = "sort_requirements"
    /\ before' = reqs
    /\ prior' = fs.dest
    /\ ret' = [FromFile(fs.dest) EXCEPT !.val = 0]
    /\ IF FromFile(fs.dest).exc = "none"
       THEN /\ reqs' = FromFile(fs.dest).val
            /\ fs' = [dest |-> FileOf(WriteText(FromFile(fs.dest).val)),
                      bak |-> NoFile]
       ELSE UNCHANGED <<reqs, fs>>
    /\ UNCHANGED filerest

NextFile == from_lines \/ write \/ from_file \/ sort_requirements

SpecFile == InitFile /\ [][NextFile]_vars

\* The lines of the manifest on disk that are not blank.
RecordLines ==
    SelectSeq(ReadLines(fs.dest.data), LAMBDA l : l.text # <<>>)

\* C11: after write() or sort_requirements the file holds one line per
\* record of the collection, each line is a record's rendered line and
\* every record has its own, the lines are in ascending code point order
\* of the name, and the text ends with a newline.
C11_WriteSortedLines ==
    (op \in {"write", "sort_requirements"} /\ ret.exc = "none")
    => /\ fs.dest.exists
       /\ fs.dest.data # <<>>
       /\ fs.dest.data[Len(fs.dest.data)] = NL
       /\ \A i \in DOMAIN RecordLines : ParseOk(RecordLines[i].text)
       /\ SameRecords(reqs,
                       [i \in DOMAIN RecordLines |->
                           Parse(RecordLines[i].text)])
       /\ \A i, j \in DOMAIN RecordLines :
            i < j => ~NameLess(RecordLines[j].text[1], RecordLines[i].text[1])

\* sort_requirements has run on a manifest whose two lines were in
\* descending order of name, and the file now has them ascending.
C11_Witness ==
    /\ op = "sort_requirements"
    /\ ret.exc = "none"
    /\ Len(ReadLines(prior.data)) = 2
    /\ NameLess(ReadLines(prior.data)[2].text[1],
                ReadLines(prior.data)[1].text[1])
    /\ Len(RecordLines) = 2
    /\ NameLess(RecordLines[1].text[1], RecordLines[2].text[1])

\* C12: reading back with from_file the file write() made of a collection
\* gives a collection with the same records, each as often.
C12_WriteReadRoundTrip ==
    (op = "from_file" /\ fs.dest = FileOf(WriteText(before)))
    => /\ ret.exc = "none"
       /\ SameRecords(before, reqs)

Patterns ==
    { <<100>>, <<68>>, <<49>>, <<62, 61, 32, 49>>, <<120>>, <<40>> }

RECURSIVE ParenDepth(_, _)
\* The groups left open at the end of a pattern, -1 when a ')' closes
\* nothing.
ParenDepth(p, depth) ==
    IF p = <<>> THEN depth
    ELSE IF p[1] = 40 THEN ParenDepth(Tail(p), depth + 1)
    ELSE IF p[1] = 41
    THEN IF depth = 0 THEN -1 ELSE ParenDepth(Tail(p), depth - 1)
    ELSE ParenDepth(Tail(p), depth)

\* Every pattern compiles.
CompilesAny(p) == TRUE

\* re.compile(strpat, flags=flags) does not raise re.error
Compiles(p) == ParenDepth(p, 0) = 0

RECURSIVE MatchFrom(_, _, _)
\* pat.search(s) on a pattern of plain characters: the first position from
\* i on where the pattern is found in s, 0 when there is none.
MatchFrom(s, p, i) ==
    IF i + Len(p) - 1 > Len(s) THEN 0
    ELSE IF SubSeq(s, i, i + Len(p) - 1) = p THEN i
    ELSE MatchFrom(s, p, i + 1)

\* A match, had the pattern been tried on the name only.
PatMatchName(p, ignorecase, r) ==
    IF ignorecase THEN MatchFrom(Lower(r.name), Lower(p), 1) # 0
    ELSE MatchFrom(r.name, p, 1) # 0

\* pat_match(r): pat.search(str(r)) is not None, re.IGNORECASE folding the
\* case of both
PatMatch(p, ignorecase, r) ==
    IF ignorecase THEN MatchFrom(Lower(StrOf(r)), Lower(p), 1) # 0
    ELSE MatchFrom(StrOf(r), p, 1) # 0

RECURSIVE SearchLoop(_, _, _, _)
\* for r in self: if is_match(r): yield r
SearchLoop(rs, p, ignorecase, reverse) ==
    IF rs = <<>> THEN <<>>
    ELSE (IF PatMatch(p, ignorecase, rs[1]) # reverse
          THEN <<rs[1]>> ELSE <<>>)
         \o SearchLoop(Tail(rs), p, ignorecase, reverse)

\* What consuming rs.search(p, ignorecase, reverse) gives: the records
\* yielded, or the re.error of the compilation at the first next().
Search(rs, p, ignorecase, reverse) ==
    IF ~Compiles(p) THEN Raise("re.error")
    ELSE Return(SearchLoop(rs, p, ignorecase, reverse))

\* A line of print (stdout) or of print_err (stderr): what it says, and the
\* record or the number it says it about.
Printed(stream, msg, text) == [stream |-> stream, msg |-> msg, text |-> text]

\* '\n'.join(found.iter_str(...)): the lines of the records, by name
IterStr(rs) ==
    [i \in DOMAIN rs |->
        Printed("stdout", "record", StrOf(SortedByName(rs)[i]))]

\* What the steps below leave alone.
searchrest ==
    <<line, result, dupes, fs, sw_pc, sw_backup, sw_f, extype, raised,
      failedAt, stderr, wpos, prior, bodyRan, writes, input, call, pkgs,
      pypi, queried, status_latest>>

\* A search is about to be made: search() on a collection in memory, or
\* the search command on a manifest written by hand.
InitSearch ==
    /\ op = "init"
    /\ line = <<>>
    /\ result = "none"
    /\ dupes = <<>>
    /\ SWIdle
    /\ RemoteIdle
    /\ input = <<>>
    /\ ret = Return(0)
    /\ stdout = <<>>
    /\ pkgs = {}
    /\ pypi = {}
    /\ \/ /\ reqs \in SeqUpTo(Records, MaxReqs)
          /\ fs = [dest |-> NoFile, bak |-> NoFile]
          /\ call \in [fn : {"search"}, pattern : Patterns,
                       ignorecase : BOOLEAN, reverse : BOOLEAN]
       \/ /\ reqs = <<>>
          /\ \E file \in HandFiles : fs = [dest |-> file, bak |-> NoFile]
          /\ call \in [fn : {"search_requirements"}, pattern : Patterns,
                       ignorecase : BOOLEAN, reverse : {FALSE}]
    /\ before = reqs

\* tuple(reqs.search(call.pattern, ignorecase=.., reverse=..))
search ==
    /\ call.fn = "search"
    /\ op' = "search"
    /\ ret' = Search(reqs, call.pattern, call.ignorecase, call.reverse)
    /\ stdout' = <<>>
    /\ UNCHANGED <<reqs, before, searchrest>>

\* What search_requirements prints and returns for the collection rs it has
\* loaded.
SearchOutput(rs, p, ignorecase) ==
    IF Search(rs, p, ignorecase, FALSE).exc # "none"
    THEN [out |-> <<Printed("stderr", "Invalid regex pattern", <<>>)>>,
          code |-> 1]
    ELSE IF Search(rs, p, ignorecase, FALSE).val = <<>>
    THEN [out |-> <<Printed("stderr", "No entries found with", <<>>)>>,
          code |-> 1]
    ELSE [out |-> IterStr(Search(rs, p, ignorecase, FALSE).val)
                  \o <<Printed("stdout", "Found",
                               <<Len(Search(rs, p, ignorecase, FALSE).val)>>)>>,
          code |-> 0]

\* search_requirements(call.pattern, filename=Filename, ignorecase=..)
search_requirements ==
    /\ call.fn = "search_requirements"
    /\ op' = "search_requirements"
    /\ before' = reqs
    /\ IF FromFile(fs.dest).exc # "none"
       THEN /\ ret' = [FromFile(fs.dest) EXCEPT !.val = 0]
            /\ stdout' = <<>>
            /\ reqs' = reqs
       ELSE /\ reqs' = FromFile(fs.dest).val
            /\ stdout' = SearchOutput(FromFile(fs.dest).val, call.pattern,
                                      call.ignorecase).out
            /\ ret' = Return(SearchOutput(FromFile(fs.dest).val,
                                          call.pattern, call.ignorecase).code)
    /\ UNCHANGED searchrest

NextSearch == search \/ search_requirements

SpecSearch == InitSearch /\ [][NextSearch]_vars

\* Pattern p is found somewhere in text s, with or without case.
Found(s, p, ignorecase) ==
    \E i \in 1..Len(s) :
        /\ i + Len(p) - 1 <= Len(s)
        /\ \A k \in 1..Len(p) :
             IF ignorecase THEN Lower(s)[i + k - 1] = Lower(p)[k]
             ELSE s[i + k - 1] = p[k]

\* The positions of the collection whose rendered line holds the pattern of
\* the call.
Hits ==
    { i \in DOMAIN reqs : Found(StrOf(reqs[i]), call.pattern, call.ignorecase) }

\* C18: search yields the records whose rendered line holds a match of the
\* pattern, all of them and no other, in the order of the collection; with
\* ignorecase the case of the letters does not count.
C18_SearchRenderedLine ==
    (op = "search" /\ ~call.reverse /\ ret.exc = "none")
    => /\ Len(ret.val) = Cardinality(Hits)
       /\ \E f \in [DOMAIN ret.val -> Hits] :
            /\ \A a, b \in DOMAIN ret.val : a < b => f[a] < f[b]
            /\ \A a \in DOMAIN ret.val : ret.val[a] = reqs[f[a]]

\* The search for ">= 1" without ignorecase found the second of two
\* records, by its spec, and not the first.
C18_Witness ==
    /\ op = "search"
    /\ ~call.reverse
    /\ ~call.ignorecase
    /\ call.pattern = <<62, 61, 32, 49>>
    /\ Len(reqs) = 2
    /\ ret.exc = "none"
    /\ ret.val = <<reqs[2]>>
    /\ reqs[1].name = reqs[2].name

\* C19: the search command, given the pattern "(", prints no record; when
\* it has loaded the manifest it reports the invalid pattern, and nothing
\* else, and returns 1.
C19_InvalidPatternFirst ==
    (op = "search_requirements" /\ call.pattern = <<40>>)
    => /\ \A i \in DOMAIN stdout : stdout[i].stream # "stdout"
       /\ ret.exc = "none"
          => /\ stdout = <<Printed("stderr", "Invalid regex pattern", <<>>)>>
             /\ ret.val = 1

\* The command was given "(" on a manifest of two records, and reported it.
C19_Witness ==
    /\ op = "search_requirements"
    /\ call.pattern = <<40>>
    /\ Len(reqs) = 2
    /\ ret = Return(1)
    /\ stdout = <<Printed("stderr", "Invalid regex pattern", <<>>)>>

(***************************************************************************)
(* Versions: compare_versions, installed_version and satisfied.            *)
(***************************************************************************)
\* The keys of OP_FUNCS.
OpKeys == { "==", ">=", "<=", ">", "<" }

\* The operators compare_versions is called with: the keys, 'WAT' and None.
CallOps == OpKeys \cup { "WAT", "None" }

\* The version strings compared: "1", "2", "1.0", "1.0.0", "1.0.1", "0.1"
\* and "0.1.0".
CmpVersions ==
    { <<1>>, <<2>>, <<1, 0>>, <<1, 0, 0>>, <<1, 0, 1>>, <<0, 1>>, <<0, 1, 0>> }

RECURSIVE ParseVersion(_)
\* parse_version(v), as its comparison key: the release numbers without
\* the zeros at their end.
ParseVersion(v) ==
    IF v = <<>> THEN <<>>
    ELSE IF v[Len(v)] = 0 THEN ParseVersion(SubSeq(v, 1, Len(v) - 1))
    ELSE v

\* OP_FUNCS[key](v1, v2): the parsed versions compare as tuples of numbers
\* do, item by item and a proper prefix first, which is the order NameLess
\* computes.
OpFunc(key, v1, v2) ==
    CASE key = "==" -> ParseVersion(v1) = ParseVersion(v2)
      [] key = ">=" -> ~NameLess(ParseVersion(v1), ParseVersion(v2))
      [] key = "<=" -> ~NameLess(ParseVersion(v2), ParseVersion(v1))
      [] key = ">" -> NameLess(ParseVersion(v2), ParseVersion(v1))
      [] key = "<" -> NameLess(ParseVersion(v1), ParseVersion(v2))

\* The comparison, had an unknown operator meant '=='.
CompareVersionsEq(ver1, o, ver2) ==
    OpFunc(IF o \in OpKeys THEN o ELSE "==", ver1, ver2)

\* compare_versions(ver1, op, ver2): OP_FUNCS.get(op, OP_FUNCS['>='])
CompareVersions(ver1, o, ver2) ==
    OpFunc(IF o \in OpKeys THEN o ELSE ">=", ver1, ver2)

\* The records satisfied() is asked about: "d" or "D", with specs of any
\* operator and the versions "1" and "2".
SatRecords ==
    [name : { <<100>>, <<68>> },
     specs : SeqUpTo({ <<o, v>> : o \in OpKeys, v \in {<<1>>, <<2>>} },
                     MaxSpecs)]

\* The versions a package can be installed at: "1", "1.0", "0.1" and "3".
InstVersions == { <<1>>, <<1, 0>>, <<0, 1>>, <<3>> }

\* PKGS as load_packages can return it: each of "d" and "s" installed at one
\* version, or not installed.
PkgSets ==
    { pk \in SUBSET [key : { <<100>>, <<115>> }, version : InstVersions] :
        \A p, q \in pk : p.key = q.key => p = q }

\* PKGS.get(name.lower(), None) is not None
Installed(pk, name) == \E p \in pk : p.key = Lower(name)

\* The specs of self.installed_version(): project_name '==' base_version
InstalledSpecs(pk, name) ==
    << <<"==", (CHOOSE p \in pk : p.key = Lower(name)).version>> >>

\* The values given as against: None, a version string, a requirement with
\* its specs, and a value that is neither.
Againsts ==
    { [kind |-> "None", specs |-> <<>>], [kind |-> "other", specs |-> <<>>] }
    \cup { [kind |-> "str", specs |-> << <<"", v>> >>] : v \in InstVersions }
    \cup { [kind |-> "req", specs |-> sl] :
             sl \in { <<>>, << <<"==", <<2>>>> >>,
                      << <<">=", <<1>>>>, <<"<=", <<2>>>> >> } }

\* True when every spec holds for every version.
AnyHoldsAll(againstspecs, specs) ==
    \A i \in DOMAIN againstspecs : \A j \in DOMAIN specs :
        CompareVersions(againstspecs[i][2], specs[j][1], specs[j][2])

\* The two loops of satisfied: True at the first pair that compares true.
AnyHolds(againstspecs, specs) ==
    \E i \in DOMAIN againstspecs : \E j \in DOMAIN specs :
        CompareVersions(againstspecs[i][2], specs[j][1], specs[j][2])

\* r.satisfied(against), with pk installed
Satisfied(r, against, pk) ==
    IF against.kind = "None"
    THEN IF Installed(pk, r.name)
         THEN Return(AnyHolds(InstalledSpecs(pk, r.name), r.specs))
         ELSE Return(FALSE)
    ELSE IF against.kind = "other" THEN Raise("TypeError")
    ELSE Return(AnyHolds(against.specs, r.specs))

\* What the steps below leave alone.
verrest ==
    <<reqs, line, before, result, dupes, swvars, input, call, stdout, pkgs,
      pypi, queried, status_latest>>

\* A call is about to be made: compare_versions with its arguments, or
\* satisfied on a record with "d" installed or not.
InitVer ==
    /\ reqs = <<>>
    /\ op = "init"
    /\ line = <<>>
    /\ before = <<>>
    /\ result = "none"
    /\ dupes = <<>>
    /\ fs = [dest |-> NoFile, bak |-> NoFile]
    /\ SWIdle
    /\ RemoteIdle
    /\ input = <<>>
    /\ ret = Return(0)
    /\ stdout = <<>>
    /\ pypi = {}
    /\ \/ /\ call \in [fn : {"compare_versions"}, ver1 : CmpVersions,
                       op : CallOps, ver2 : CmpVersions]
          /\ pkgs = {}
       \/ /\ call \in [fn : {"satisfied"}, req : SatRecords,
                       against : Againsts]
          /\ pkgs \in { pk \in PkgSets : \A p \in pk : p.key = <<100>> }

\* RequirementPlus.compare_versions(call.ver1, call.op, call.ver2)
compare_versions ==
    /\ call.fn = "compare_versions"
    /\ op' = "compare_versions"
    /\ ret' = Return(CompareVersions(call.ver1, call.op, call.ver2))
    /\ UNCHANGED verrest

\* call.req.satisfied(call.against)
satisfied ==
    /\ call.fn = "satisfied"
    /\ op' = "satisfied"
    /\ ret' = Satisfied(call.req, call.against, pkgs)
    /\ UNCHANGED verrest

NextVer == compare_versions \/ satisfied

SpecVer == InitVer /\ [][NextVer]_vars

\* Number i of a version, the numbers past its end being 0.
VerAt(v, i) == IF i <= Len(v) THEN v[i] ELSE 0

\* The order of two versions: -1, 0 or 1, by the first number that differs.
VerOrder(a, b) ==
    LET n == IF Len(a) > Len(b) THEN Len(a) ELSE Len(b)
        diff == { i \in 1..n : VerAt(a, i) # VerAt(b, i) }
        first == CHOOSE i \in diff : \A j \in diff : i <= j
    IN  IF diff = {} THEN 0
        ELSE IF VerAt(a, first) < VerAt(b, first) THEN -1 ELSE 1

\* The relation an operator names, an unknown operator naming '>='.
Holds(a, o, b) ==
    CASE o = "==" -> VerOrder(a, b) = 0
      [] o = "<=" -> VerOrder(a, b) <= 0
      [] o = ">" -> VerOrder(a, b) > 0
      [] o = "<" -> VerOrder(a, b) < 0
      [] OTHER -> VerOrder(a, b) >= 0

\* C14: compare_versions returns the truth of the relation its operator
\* names on the two versions, an unknown operator and None standing for
\* '>='; a version compared with itself gives true for ==, >= and <=, and
\* false for > and <.
C14_CompareVersions ==
    op = "compare_versions"
    => /\ ret.val = Holds(call.ver1, call.op, call.ver2)
       /\ call.ver1 = call.ver2 => (ret.val <=> call.op \notin {">", "<"})

\* "2" was compared with "1" under the unknown operator, and the answer was
\* true.
C14_Witness ==
    /\ op = "compare_versions"
    /\ call.op = "WAT"
    /\ call.ver1 = <<2>>
    /\ call.ver2 = <<1>>
    /\ ret.val = TRUE

\* The versions the call of satisfied compares against.
AgainstVersions ==
    IF call.against.kind = "None"
    THEN { p.version : p \in { q \in pkgs : q.key = Lower(call.req.name) } }
    ELSE { call.against.specs[i][2] : i \in DOMAIN call.against.specs }

\* C13: satisfied returns false when against is None and the package is
\* not installed; otherwise it returns true exactly when one of the specs
\* of the record holds for one of the versions of against.
C13_SatisfiedAnyAny ==
    (op = "satisfied" /\ ret.exc = "none")
    => ret.val =
         (\E v \in AgainstVersions : \E j \in DOMAIN call.req.specs :
              Holds(v, call.req.specs[j][1], call.req.specs[j][2]))

\* satisfied said true for a record of two specs of which one holds for
\* the installed version and the other does not.
C13_Witness ==
    /\ op = "satisfied"
    /\ call.against.kind = "None"
    /\ Installed(pkgs, call.req.name)
    /\ Len(call.req.specs) = 2
    /\ \E v \in AgainstVersions :
         /\ Holds(v, call.req.specs[1][1], call.req.specs[1][2])
         /\ ~Holds(v, call.req.specs[2][1], call.req.specs[2][2])
    /\ ret.val = TRUE

(***************************************************************************)
(* Status lines and the remote index.                                      *)
(***************************************************************************)
\* What the index answers for "d" and for "s": version "2", a document
\* without version, or a server error. A name it has no answer for is
\* not found.
IndexSets ==
    { px \in SUBSET ([key : { <<100>>, <<115>> }, code : {200},
                      version : { <<2>>, <<>> }]
                     \cup [key : { <<100>>, <<115>> }, code : {500},
                           version : { <<>> }]) :
        \A a, b \in px : a.key = b.key => a = b }

\* The answer of the index for a name: 404 when it does not know the name.
IndexAnswer(px, name) ==
    IF \E a \in px : a.key = Lower(name)
    THEN CHOOSE a \in px : a.key = Lower(name)
    ELSE [key |-> Lower(name), code |-> 404, version |-> <<>>]

\* get_pypi_info(name): the version of the document's info, <<>> when the
\* document has none; HTTPError for every answer that is not 200.
GetPypiInfo(px, name) ==
    IF IndexAnswer(px, name).code # 200
    THEN [exc |-> "HTTPError", val |-> IndexAnswer(px, name).code]
    ELSE Return(IndexAnswer(px, name).version)

\* The error flag, had it been set for a missing package only.
StatusErrorMissing(r, pk) == ~Installed(pk, r.name)

\* StatusLine(r).error: nothing installed, or the installed version does
\* not satisfy the record.
StatusError(r, pk) ==
    \/ ~Installed(pk, r.name)
    \/ ~Satisfied(r, [kind |-> "None", specs |-> <<>>], pk).val

\* op.endswith('='), for the operators a requirement line can carry
EndsWithEq(o) == o \in { "==", ">=", "<=", "!=", "~=" }

\* The versions of all the specs, whatever their operator.
IncludedVersAny(r) == { r.specs[i][2] : i \in DOMAIN r.specs }

\* set(ver for op, ver in req.specs if op.endswith('='))
IncludedVers(r) ==
    { r.specs[i][2] : i \in { j \in DOMAIN r.specs :
                                EndsWithEq(r.specs[j][1]) } }

\* StatusLine(r): the record, the error flag, the installed version (<<>>
\* when there is none) and the status character.
StatusLine(r, pk) ==
    [req |-> r,
     error |-> StatusError(r, pk),
     installed |-> IF Installed(pk, r.name)
                   THEN InstalledSpecs(pk, r.name)[1][2] ELSE <<>>,
     status |-> IF StatusError(r, pk) THEN "!"
                ELSE IF InstalledSpecs(pk, r.name)[1][2] \in IncludedVers(r)
                THEN " " ELSE "-"]

\* The line with_latest returns, had it set the error flag of a status
\* line the index knows nothing of.
LatestLineFlagged(st, marker, latest) ==
    [line |-> [st EXCEPT !.error = @ \/ marker = "?"],
     marker |-> marker, latest |-> latest]

\* A status line with what with_latest appends to it.
LatestLine(st, marker, latest) ==
    [line |-> st, marker |-> marker, latest |-> latest]

\* with_latest, had it let every HTTPError through.
WithLatestRaises(st, px) ==
    IF GetPypiInfo(px, st.req.name).exc # "none"
    THEN GetPypiInfo(px, st.req.name)
    ELSE Return(LatestLine(st, " ", GetPypiInfo(px, st.req.name).val))

\* StatusLine.with_latest(), first call on a status line: 'not found' for
\* a 404, any other HTTPError raised again, the bound method self.status
\* when the document has no version.
WithLatest(st, px) ==
    IF GetPypiInfo(px, st.req.name).exc # "none"
    THEN IF GetPypiInfo(px, st.req.name).val # 404
         THEN GetPypiInfo(px, st.req.name)
         ELSE Return(LatestLine(st, "?", <<>>))
    ELSE IF GetPypiInfo(px, st.req.name).val = <<>>
    THEN Return(LatestLine(st, "method", <<>>))
    ELSE Return(LatestLine(st,
           IF AnyHolds(<< <<"", GetPypiInfo(px, st.req.name).val>> >>,
                       st.req.specs)
           THEN IF st.req.specs[1][2] = GetPypiInfo(px, st.req.name).val
                THEN " " ELSE "-"
           ELSE "!",
           GetPypiInfo(px, st.req.name).val))

(***************************************************************************)
(* The commands of main(), run by entry_point.                             *)
(***************************************************************************)
\* What a command gives back: the exception it ends with or "none", the
\* value it returns, what it has printed, and the manifest it leaves.
Outcome(exc, val, out, dest) ==
    [exc |-> exc, val |-> val, out |-> out, dest |-> dest]

\* The error count, had a record shown by its requirement only not counted.
ErrsAfterShown(errs, st, spec_only) ==
    IF st.error /\ ~spec_only THEN errs + 1 ELSE errs

\* if statusline.error: errs += 1
ErrsAfter(errs, st, spec_only) == IF st.error THEN errs + 1 ELSE errs

RECURSIVE CheckLoop(_, _, _, _, _, _, _, _, _)
\* The loop of check_requirements over the records rs still to do, errs
\* and out being the count and the output so far.
CheckLoop(rs, errors_only, spec_only, latest, pk, px, errs, out, dest) ==
    IF rs = <<>> THEN Outcome("none", errs, out, dest)
    ELSE IF errors_only /\ ~StatusLine(rs[1], pk).error
    THEN CheckLoop(Tail(rs), errors_only, spec_only, latest, pk, px, errs,
                   out, dest)
    ELSE IF spec_only
    THEN CheckLoop(Tail(rs), errors_only, spec_only, latest, pk, px,
                   ErrsAfter(errs, StatusLine(rs[1], pk), spec_only),
                   Append(out, Printed("stdout", "spec", StrOf(rs[1]))), dest)
    ELSE IF latest
    THEN IF WithLatest(StatusLine(rs[1], pk), px).exc # "none"
         THEN Outcome("HTTPError", 0, out, dest)
         ELSE CheckLoop(Tail(rs), errors_only, spec_only, latest, pk, px,
                        ErrsAfter(errs, StatusLine(rs[1], pk), spec_only),
                        Append(out,
                               Printed("stdout", "latest", StrOf(rs[1]))),
                        dest)
    ELSE CheckLoop(Tail(rs), errors_only, spec_only, latest, pk, px,
                   ErrsAfter(errs, StatusLine(rs[1], pk), spec_only),
                   Append(out, Printed("stdout", "status", StrOf(rs[1]))), dest)

\* check_requirements(Filename, errors_only, spec_only, latest)
CheckRequirements(file, errors_only, spec_only, latest, pk, px) ==
    IF FromFile(file).exc # "none"
    THEN Outcome(FromFile(file).exc, 0, <<>>, file)
    ELSE IF FromFile(file).val = <<>>
    THEN Outcome("EmptyFile", 0, <<>>, file)
    ELSE CheckLoop(FromFile(file).val, errors_only, spec_only, latest, pk,
                   px, 0, <<>>, file)

\* reqs.add_line(l) on the list rs, for a line that parses: the list
\* afterwards, and "Duplicate" for the ValueError.
AddLineTo(rs, l) ==
    IF FirstMatch(rs, Parse(l).name) = 0
    THEN [result |-> "Added", reqs |-> Append(rs, Parse(l))]
    ELSE IF ReqEq(Parse(l), rs[FirstMatch(rs, Parse(l).name)])
    THEN [result |-> "Duplicate", reqs |-> rs]
    ELSE [result |-> "Replaced",
          reqs |-> [rs EXCEPT ![FirstMatch(rs, Parse(l).name)] = Parse(l)]]

RECURSIVE AddLoop(_, _, _)
\* The loop of add_lines over the lines ls still to do, then the write.
AddLoop(rs, ls, dest) ==
    IF ls = <<>>
    THEN Outcome("none", 0, <<>>, FileOf(WriteText(rs)))
    ELSE IF ~ParseOk(ls[1])
    THEN Outcome("none", 1,
                 <<Printed("stderr", "Invalid requirement spec.", <<>>)>>,
                 dest)
    ELSE IF AddLineTo(rs, ls[1]).result = "Duplicate"
    THEN Outcome("FatalError", 0, <<>>, dest)
    ELSE AddLoop(AddLineTo(rs, ls[1]).reqs, Tail(ls), dest)

\* add_lines(Filename, ls) on a manifest that exists
AddToFile(file, ls) ==
    IF FromFile(file).exc # "none"
    THEN Outcome(FromFile(file).exc, 0, <<>>, file)
    ELSE AddLoop(FromFile(file).val, ls, file)

\* add_lines(Filename, ls): file_ensure_exists first, answer being what
\* the user does at the prompt 'Create it?'
AddLines(file, ls, answer) ==
    IF file.exists THEN AddToFile(file, ls)
    ELSE IF answer = "y" THEN AddToFile(FileOf(<<>>), ls)
    ELSE IF answer = "y, not created"
    THEN Outcome("none", 1, <<>>, file)
    ELSE Outcome("UserCancelled", 0, <<>>, file)

RECURSIVE DictSum(_)
\* sum(dupes.values())
DictSum(d) ==
    IF DOMAIN d = {} THEN 0
    ELSE LET k == CHOOSE x \in DOMAIN d : TRUE
         IN  d[k] + DictSum([x \in (DOMAIN d) \ {k} |-> d[x]])

\* list_duplicates(Filename)
ListDuplicates(file) ==
    IF FromFile(file).exc # "none"
    THEN Outcome(FromFile(file).exc, 0, <<>>, file)
    ELSE Outcome("none", DictSum(Duplicates(FromFile(file).val)), <<>>, file)

\* list_requirements(Filename): returns None, which exits as 0
ListRequirements(file) ==
    IF FromFile(file).exc # "none"
    THEN Outcome(FromFile(file).exc, 0, <<>>, file)
    ELSE Outcome("none", 0, IterStr(FromFile(file).val), file)

\* show_package_info(name): 1 when the lookup fails or the document has no
\* info, 0 otherwise
ShowPackageInfo(name, px) ==
    IF GetPypiInfo(px, name).exc # "none" THEN 1
    ELSE IF GetPypiInfo(px, name).val = <<>> THEN 1
    ELSE 0

RECURSIVE SumInfos(_, _)
\* sum(show_package_info(name) for name in names)
SumInfos(names, px) ==
    IF names = <<>> THEN 0
    ELSE ShowPackageInfo(names[1], px) + SumInfos(Tail(names), px)

\* show_package_infos(names)
ShowPackageInfos(names, px, file) ==
    IF names = <<>> THEN Outcome("EmptyFile", 0, <<>>, file)
    ELSE Outcome("none", SumInfos(names, px), <<>>, file)

\* show_package_infos(get_requirement_names(Filename))
ShowFileInfos(file, px) ==
    IF FromFile(file).exc # "none"
    THEN Outcome(FromFile(file).exc, 0, <<>>, file)
    ELSE ShowPackageInfos(NamesOf(SortedByName(FromFile(file).val)), px, file)

\* search_requirements(p, Filename, ignorecase)
SearchRequirements(file, p, ignorecase) ==
    IF FromFile(file).exc # "none"
    THEN Outcome(FromFile(file).exc, 0, <<>>, file)
    ELSE Outcome("none", SearchOutput(FromFile(file).val, p, ignorecase).code,
                 SearchOutput(FromFile(file).val, p, ignorecase).out, file)

\* The branch --sort of main: sort_requirements(Filename), then return 0
SortFile(file) ==
    IF FromFile(file).exc # "none"
    THEN Outcome(FromFile(file).exc, 0, <<>>, file)
    ELSE Outcome("none", 0, <<>>, FileOf(WriteText(FromFile(file).val)))

\* main(argd), c being the command line: the first of its branches that
\* applies. An interrupt from the keyboard ends it where it stands.
Main(c, file, pk, px) ==
    IF c.interrupt THEN Outcome("KeyboardInterrupt", 0, <<>>, file)
    ELSE CASE c.fn = "add" -> AddLines(file, c.lines, c.answer)
           [] c.fn = "check" ->
                CheckRequirements(file, "errors" \in c.flags,
                                  "requirement" \in c.flags,
                                  "checklatest" \in c.flags, pk, px)
           [] c.fn = "duplicates" -> ListDuplicates(file)
           [] c.fn = "list" -> ListRequirements(file)
           [] c.fn = "packages" -> Outcome("none", 0, <<>>, file)
           [] c.fn = "search" ->
                SearchRequirements(file, c.pattern, "ignorecase" \in c.flags)
           [] c.fn = "pypi" -> ShowFileInfos(file, px)
           [] c.fn = "sort" -> SortFile(file)
           [] c.fn = "PACKAGE" ->
                ShowPackageInfos([i \in DOMAIN c.lines |-> c.lines[i][1]],
                                 px, file)

RECURSIVE CheckQueries(_, _, _, _, _, _)
\* The names the loop of check_requirements asks the index for, in order:
\* with_latest is called on a new StatusLine for every record it prints,
\* and the loop ends at the first lookup that raises.
CheckQueries(rs, errors_only, spec_only, latest, pk, px) ==
    IF rs = <<>> THEN <<>>
    ELSE IF errors_only /\ ~StatusLine(rs[1], pk).error
    THEN CheckQueries(Tail(rs), errors_only, spec_only, latest, pk, px)
    ELSE IF spec_only \/ ~latest
    THEN CheckQueries(Tail(rs), errors_only, spec_only, latest, pk, px)
    ELSE IF WithLatest(StatusLine(rs[1], pk), px).exc # "none"
    THEN <<rs[1].name>>
    ELSE <<rs[1].name>>
         \o CheckQueries(Tail(rs), errors_only, spec_only, latest, pk, px)

\* The names main(argd) calls get_pypi_info with, in order: those of
\* check_requirements, and one call of show_package_info for every name.
Queries(c, file, pk, px) ==
    IF c.interrupt THEN <<>>
    ELSE CASE c.fn = "check" ->
                IF FromFile(file).exc # "none" THEN <<>>
                ELSE CheckQueries(FromFile(file).val, "errors" \in c.flags,
                                  "requirement" \in c.flags,
                                  "checklatest" \in c.flags, pk, px)
           [] c.fn = "pypi" ->
                IF FromFile(file).exc # "none" THEN <<>>
                ELSE NamesOf(SortedByName(FromFile(file).val))
           [] c.fn = "PACKAGE" -> [i \in DOMAIN c.lines |-> c.lines[i][1]]
           [] OTHER -> <<>>

\* The exit code, had a cancelled run ended like a fatal error.
ExitCodeFatal(o) ==
    IF o.exc = "none" THEN o.val
    ELSE IF o.exc = "EmptyFile" THEN 0
    ELSE 1

\* The mainret entry_point hands to sys.exit for the outcome of main():
\* its return value, 0 for EmptyFile, 2 for KeyboardInterrupt and
\* UserCancelled, 1 for every other exception.
ExitCode(o) ==
    IF o.exc = "none" THEN o.val
    ELSE IF o.exc = "EmptyFile" THEN 0
    ELSE IF o.exc \in {"KeyboardInterrupt", "UserCancelled"} THEN 2
    ELSE 1

\* The manifests the commands are run on: none, an empty file, and what
\* write() makes of the lists of Manifests.
MainFiles ==
    { NoFile, FileOf(<<>>) } \cup { FileOf(WriteText(rs)) : rs \in Manifests }

\* The lines given to --add.
AddArgs ==
    { LineOf(r) : r \in FileRecords }
    \cup { <<<<100>>, "<=", <<2>>>>, <<<<100>>, ">=">> }

\* A command line: the command, its flags and arguments, what the user
\* does at the prompt 'Create it?' (yes, yes with the file then failing
\* to be created, no, or end of input), and whether the run is
\* interrupted.
CommandLine(fn, flags, ls, p, answer, interrupt) ==
    [fn |-> fn, flags |-> flags, lines |-> ls, pattern |-> p,
     answer |-> answer, interrupt |-> interrupt,
     req |-> [name |-> <<>>, specs |-> <<>>]]

\* The records a status line is made for: "d" or "D", with specs of the
\* operators of OP_FUNCS and of '!=', and the versions "1" and "2".
StatusRecords ==
    [name : { <<100>>, <<68>> },
     specs : SeqUpTo({ <<o, v>> : o \in OpKeys \cup {"!="},
                                  v \in {<<1>>, <<2>>} }, MaxSpecs)]

\* The branches of main().
Commands ==
    { "add", "check", "duplicates", "list", "packages", "search", "pypi",
      "sort", "PACKAGE" }

\* What the steps below leave alone.
mainrest ==
    <<reqs, line, before, result, dupes, sw_pc, sw_backup, sw_f, extype,
      raised, failedAt, stderr, wpos, bodyRan, writes, input, call, pkgs,
      pypi>>

\* A run is about to start: a command line, a manifest, the installed
\* packages and the answers of the index, as far as the command looks at
\* them; or with_latest is about to be called on the status of a record;
\* or the status line of a record is about to be made.
InitMain ==
    /\ reqs = <<>>
    /\ op = "init"
    /\ line = <<>>
    /\ before = <<>>
    /\ result = "none"
    /\ dupes = <<>>
    /\ SWIdle
    /\ RemoteIdle
    /\ input = <<>>
    /\ ret = Return(0)
    /\ stdout = <<>>
    /\ \E file \in MainFiles : fs = [dest |-> file, bak |-> NoFile]
    /\ \/ /\ \E flags \in SUBSET {"errors", "requirement"} :
               call = CommandLine("check", flags, <<>>, <<>>, "none", FALSE)
          /\ pkgs \in PkgSets
          /\ pypi = {}
       \/ /\ \E flags \in SUBSET {"errors", "requirement"} :
               call = CommandLine("check", flags \cup {"checklatest"}, <<>>,
                                  <<>>, "none", FALSE)
          /\ pkgs \in PkgSets
          /\ pypi \in IndexSets
       \/ /\ \E ls \in SeqUpTo(AddArgs, 2) \ {<<>>},
                answer \in {"y", "y, not created", "n", "EOF"} :
               call = CommandLine("add", {}, ls, <<>>, answer, FALSE)
          /\ pkgs = {}
          /\ pypi = {}
       \/ /\ \E fn \in {"duplicates", "list", "sort"} :
               call = CommandLine(fn, {}, <<>>, <<>>, "none", FALSE)
          /\ pkgs = {}
          /\ pypi = {}
       \/ /\ call = CommandLine("packages", {}, <<>>, <<>>, "none", FALSE)
          /\ pkgs \in PkgSets
          /\ pypi = {}
       \/ /\ \E p \in Patterns, flags \in SUBSET {"ignorecase"} :
               call = CommandLine("search", flags, <<>>, p, "none", FALSE)
          /\ pkgs = {}
          /\ pypi = {}
       \/ /\ call = CommandLine("pypi", {}, <<>>, <<>>, "none", FALSE)
          /\ pkgs = {}
          /\ pypi \in IndexSets
       \/ /\ \E ls \in SeqUpTo({ <<<<100>>>>, <<<<115>>>> }, 2) \ {<<>>} :
               call = CommandLine("PACKAGE", {}, ls, <<>>, "none", FALSE)
          /\ pkgs = {}
          /\ pypi \in IndexSets
       \/ /\ \E fn \in Commands :
               call = CommandLine(fn, {}, <<>>, <<>>, "none", TRUE)
          /\ pkgs = {}
          /\ pypi = {}
       \/ /\ \E r \in FileRecords :
               call = [CommandLine("with_latest", {}, <<>>, <<>>, "none",
                                   FALSE) EXCEPT !.req = r]
          /\ pkgs \in PkgSets
          /\ pypi \in IndexSets
       \/ /\ \E r \in StatusRecords :
               call = [CommandLine("StatusLine", {}, <<>>, <<>>, "none",
                                   FALSE) EXCEPT !.req = r]
          /\ pkgs \in { pk \in PkgSets : \A p \in pk : p.key = <<100>> }
          /\ pypi = {}

\* entry_point(): main() on the command line, then sys.exit(mainret)
entry_point ==
    /\ call.fn \in Commands
    /\ op' = "entry_point"
    /\ ret' = [exc |-> Main(call, fs.dest, pkgs, pypi).exc,
               val |-> ExitCode(Main(call, fs.dest, pkgs, pypi))]
    /\ stdout' = Main(call, fs.dest, pkgs, pypi).out
    /\ fs' = [fs EXCEPT !.dest = Main(call, fs.dest, pkgs, pypi).dest]
    /\ prior' = fs.dest
    /\ queried' = Queries(call, fs.dest, pkgs, pypi)
    /\ UNCHANGED <<status_latest, mainrest>>

\* with_latest() on a status line whose status_latest is cache: the cached
\* line when there is one, the answer of the index otherwise.
WithLatestCached(st, px, cache) ==
    IF cache.cached THEN Return(cache.val) ELSE WithLatest(st, px)

\* self.status_latest after with_latest() has returned or raised r: set at
\* the end of the method only, so not when it raised and not when the
\* document had no version.
StatusLatestAfter(r, cache) ==
    IF cache.cached THEN cache
    ELSE IF r.exc = "none" /\ r.val.marker # "method"
    THEN [cached |-> TRUE, val |-> r.val]
    ELSE cache

\* statusline = StatusLine(call.req), then statusline.with_latest(), and
\* statusline.with_latest() a second time
with_latest ==
    /\ call.fn = "with_latest"
    /\ op \in {"init", "with_latest"}
    /\ op' = IF op = "init" THEN "with_latest" ELSE "with_latest again"
    /\ ret' = WithLatestCached(StatusLine(call.req, pkgs), pypi, status_latest)
    /\ status_latest' = StatusLatestAfter(ret', status_latest)
    /\ queried' = IF status_latest.cached THEN queried
                  ELSE Append(queried, call.req.name)
    /\ stdout' = <<>>
    /\ prior' = fs.dest
    /\ UNCHANGED <<fs, mainrest>>

\* StatusLine(call.req)
status_line ==
    /\ call.fn = "StatusLine"
    /\ op' = "StatusLine"
    /\ ret' = Return(StatusLine(call.req, pkgs))
    /\ stdout' = <<>>
    /\ prior' = fs.dest
    /\ UNCHANGED <<fs, queried, status_latest, mainrest>>

NextMain == entry_point \/ with_latest \/ status_line

SpecMain == InitMain /\ [][NextMain]_vars

\* The records of the manifest the command was run on.
ManifestRecords == FromFile(prior).val

\* The records of the manifest that are in error: not installed, or
\* installed at a version that none of their specs holds for.
Errored ==
    { i \in DOMAIN ManifestRecords :
        \/ ~\E p \in pkgs : p.key = Lower(ManifestRecords[i].name)
        \/ \E p \in pkgs :
             /\ p.key = Lower(ManifestRecords[i].name)
             /\ \A j \in DOMAIN ManifestRecords[i].specs :
                  ~Holds(p.version, ManifestRecords[i].specs[j][1],
                         ManifestRecords[i].specs[j][2]) }

\* C16: a check that runs to its end exits with the number of records of
\* the manifest that are in error, 0 when there is none, whatever the
\* flags for errors only and requirement only.
C16_CheckExitCode ==
    (op = "entry_point" /\ call.fn = "check"
       /\ ret.exc \in {"none", "EmptyFile"})
    => ret.val = Cardinality(Errored)

\* A check shown by requirement only and errors only has exited with 2:
\* both records of its manifest are in error.
C16_Witness ==
    /\ op = "entry_point"
    /\ call.fn = "check"
    /\ call.flags = {"errors", "requirement"}
    /\ ret.exc = "none"
    /\ Len(ManifestRecords) = 2
    /\ ret.val = 2

\* The run was cancelled by the user.
Cancelled == ret.exc \in {"KeyboardInterrupt", "UserCancelled"}

\* C17: a cancelled run exits with a code that is neither 0 nor 1, and no
\* other run exits with that code.
C17_CancelCodeReserved ==
    op = "entry_point"
    => /\ Cancelled => ret.val \notin {0, 1}
       /\ ~Cancelled => ret.val # 2

\* C17, as the code has it: a cancelled run exits with 2; a run that was
\* not cancelled exits with 2 only when it returns a count and the count
\* is 2.
C17_CancelCodeShared ==
    op = "entry_point"
    => /\ Cancelled => ret.val = 2
       /\ (~Cancelled /\ ret.val = 2)
          => /\ ret.exc = "none"
             /\ call.fn \in {"check", "duplicates", "pypi", "PACKAGE"}

\* The user said no to the creation of the manifest, and the run exited
\* with 2 and without a file.
C17_Witness ==
    /\ op = "entry_point"
    /\ call.fn = "add"
    /\ call.answer = "n"
    /\ ~call.interrupt
    /\ ret.exc = "UserCancelled"
    /\ ret.val = 2
    /\ ~fs.dest.exists

\* C20: with_latest on a name the index answers 404 for raises the
\* HTTPError with code 404.
C20_NotFoundRaises ==
    (op = "with_latest" /\ IndexAnswer(pypi, call.req.name).code = 404)
    => (ret.exc = "HTTPError" /\ ret.val = 404)

\* One of the lines given to --add does not parse, or was rejected as a
\* duplicate of a record of the manifest.
AddRejected ==
    \/ \E i \in DOMAIN call.lines : ~ParseOk(call.lines[i])
    \/ ret.exc = "FatalError"

\* C21: when one of the lines given to --add does not parse or is rejected
\* as a duplicate, the manifest is afterwards what it was before the run,
\* a manifest that did not exist still not existing; when the run succeeds
\* the manifest is what write() makes of the records it then holds.
C21_AddAllOrNothing ==
    (op = "entry_point" /\ call.fn = "add" /\ ~call.interrupt)
    => /\ AddRejected => fs.dest = prior
       /\ (ret.exc = "none" /\ ret.val = 0)
          => /\ fs.dest.exists
             /\ fs.dest = FileOf(WriteText(FromFile(fs.dest).val))

\* No two records of the list share a name, whatever the case of letters.
UniqueNames(rs) ==
    \A i, j \in DOMAIN rs : Lower(rs[i].name) = Lower(rs[j].name) => i = j

\* C22: when no two records of the collection share a name before a call
\* of add_line, no two share a name after it, whether the call added,
\* replaced or failed; so a collection of unique names stays one through
\* every sequence of calls.
C22_AddKeepsNamesUnique ==
    (op = "add_line" /\ UniqueNames(before)) => UniqueNames(reqs)

\* A line for "D" was given to a collection of two names that holds "d":
\* the record of "d" was replaced, and the names are still two.
C22_Witness ==
    /\ op = "add_line"
    /\ result = "Replaced"
    /\ UniqueNames(before)
    /\ Len(before) = 2
    /\ line[1] = <<68>>
    /\ \E i \in DOMAIN before : before[i].name = <<100>>
    /\ Len(reqs) = 2
    /\ UniqueNames(reqs)

\* The version the package of the call's record is installed at, in a set:
\* empty when it is not installed.
InstalledAt == { p.version : p \in { q \in pkgs : q.key = Lower(call.req.name) } }

\* One of the specs of the call's record holds for version v.
SomeSpecHolds(v) ==
    \E j \in DOMAIN call.req.specs :
        Holds(v, call.req.specs[j][1], call.req.specs[j][2])

\* C23: the status of a requirement is one of not installed (error, '!',
\* no installed version), installed and unsatisfied (error, '!'),
\* satisfied exactly (' ') and satisfied loosely ('-'); the error flag is
\* set exactly when the package is not installed or its installed version
\* satisfies none of the specs.
C23_ErrorStates ==
    op = "StatusLine"
    => /\ ret.val.error
          <=> (InstalledAt = {} \/ \E v \in InstalledAt : ~SomeSpecHolds(v))
       /\ ret.val.error <=> ret.val.status = "!"
       /\ ~ret.val.error <=> ret.val.status \in {" ", "-"}
       /\ ret.val.installed = <<>> <=> InstalledAt = {}

\* The status of "d <= 2" with "d" installed at "3": an error, installed
\* and unsatisfied.
C23_Witness ==
    /\ op = "StatusLine"
    /\ call.req.specs = << <<"<=", <<2>>>> >>
    /\ InstalledAt = { <<3>> }
    /\ ret.val.error
    /\ ret.val.status = "!"
    /\ ret.val.installed = <<3>>

\* C24: an installed and satisfied requirement has no marker exactly when
\* the installed version is, as written, the version of one of its specs,
\* whatever the operator of that spec.
C24_ExactAnyOperator ==
    (op = "StatusLine" /\ ~ret.val.error)
    => (ret.val.status = " "
        <=> \E j \in DOMAIN call.req.specs :
               call.req.specs[j][2] = ret.val.installed)

\* C24, as the code has it: no marker exactly when the installed version
\* is, as written, the version of a spec whose operator ends with '='.
C24_ExactInclusiveOperator ==
    (op = "StatusLine" /\ ~ret.val.error)
    => /\ ret.val.status = " "
          <=> \E j \in DOMAIN call.req.specs :
                 /\ call.req.specs[j][2] = ret.val.installed
                 /\ call.req.specs[j][1] \notin {">", "<"}
       /\ ret.val.status # " " <=> ret.val.status = "-"

\* "d > 1, <= 2" with "d" installed at "1": satisfied by its second spec
\* and marked loose, although "1" is the version of its first spec.
C24_Witness ==
    /\ op = "StatusLine"
    /\ call.req.specs = << <<">", <<1>>>>, <<"<=", <<2>>>> >>
    /\ InstalledAt = { <<1>> }
    /\ ~ret.val.error
    /\ ret.val.status = "-"

\* C25: a requirement whose line has no specifier is in error exactly when
\* its package is not installed.
C25_BareNameOk ==
    (op = "StatusLine" /\ ParseOk(<<call.req.name>>)
       /\ call.req = Parse(<<call.req.name>>))
    => (ret.val.error <=> InstalledAt = {})

\* The run was a check with the remote index that loaded its manifest and
\* found records in it.
CheckedLatest ==
    /\ op = "entry_point"
    /\ call.fn = "check"
    /\ ~call.interrupt
    /\ "checklatest" \in call.flags
    /\ "requirement" \notin call.flags
    /\ ret.exc \notin {"FileNotFoundError", "ValueError", "EmptyFile"}

\* The records of the manifest the check looks up: all of them, or those
\* in error when only errors are shown.
LookedUp ==
    { i \in DOMAIN ManifestRecords : "errors" \in call.flags => i \in Errored }

C27_QueriedOncePerName ==
    call.fn \in {"check", "with_latest"}
    => \A i, j \in DOMAIN queried :
          Lower(queried[i]) = Lower(queried[j]) => i = j

\* The command line of the call without its flag for the remote index.
WithoutLatest == [call EXCEPT !.flags = @ \ {"checklatest"}]

\* C28: the status line with_latest returns carries the error flag the
\* installed version gave it, and a check with the remote index that no
\* lookup ends returns the count the same check returns without the index.
C28_LatestKeepsError ==
    /\ (op \in {"with_latest", "with_latest again"} /\ ret.exc = "none")
       => (ret.val.line.error
           <=> (InstalledAt = {} \/ \E v \in InstalledAt : ~SomeSpecHolds(v)))
    /\ (op = "entry_point" /\ call.fn = "check"
          /\ "checklatest" \in call.flags /\ ret.exc = "none")
       => /\ Main(WithoutLatest, prior, pkgs, pypi).exc = "none"
          /\ ret.val = ExitCode(Main(WithoutLatest, prior, pkgs, pypi))

\* A check with the remote index of a manifest whose one record is
\* installed and satisfied, the index not knowing the name: the line was
\* printed and the count is 0.
C28_Witness ==
    /\ CheckedLatest
    /\ ret.exc = "none"
    /\ Len(ManifestRecords) = 1
    /\ IndexAnswer(pypi, ManifestRecords[1].name).code = 404
    /\ Errored = {}
    /\ queried = <<ManifestRecords[1].name>>
    /\ ret.val = 0

\* C29: a manifest that sort_requirements has sorted, and one that write
\* has produced, is left as it is by sort_requirements: the sort of a
\* sorted manifest succeeds and writes the same content, and a sort that
\* ran on what write makes of the collection changed nothing.
C29_SortIdempotent ==
    /\ (op = "sort_requirements" /\ ret.exc = "none")
       => /\ SortFile(fs.dest).exc = "none"
          /\ SortFile(fs.dest).dest = fs.dest
    /\ op = "write" => SortFile(fs.dest).dest = fs.dest
    /\ (op = "sort_requirements" /\ prior = FileOf(WriteText(before)))
       => fs.dest = prior

\* C30: an error raised in the body of the write scope reaches the caller
\* of write() as it was raised, after the handle is closed, with a backup
\* or without; every failed step ends write() with an error; and write()
\* returns without error only when no step failed and the whole text is
\* in the destination.
C30_NeverSwallowed ==
    /\ failedAt = "body" => sw_pc \in {"exit", "raised"}
    /\ BodyFailed
       => /\ raised # "none"
          /\ raised = extype
          /\ sw_f = "closed"
    /\ failedAt # "none" => sw_pc # "done"
    /\ (failedAt # "none" /\ sw_pc = "raised") => raised # "none"
    /\ sw_pc = "done"
       => /\ failedAt = "none"
          /\ extype = "none"
          /\ raised = "none"
          /\ fs.dest = FileOf(WriteText(reqs))

\* The body of a write to a destination that did not exist raised: no
\* backup was made, the handle is closed and the error has reached the
\* caller.
C30_Witness ==
    /\ BodyFailed
    /\ ~prior.exists
    /\ sw_backup = ""
    /\ sw_f = "closed"
    /\ raised = "OSError"
    /\ Len(stderr) = 1
    /\ stderr[1].msg = "No backup was saved!"

====
